---- MODULE Spec2Model ----
(***************************************************************************)
(* Weather-App: the nested-path accessor, the field extractor of app.py    *)
(* and the point encoder of influxdb_service.py, as a state machine.       *)
(*                                                                         *)
(* Python values are tagged records:                                       *)
(*   None            [t |-> "none"]                                        *)
(*   a number        [t |-> "num",  n |-> 18]                              *)
(*   a string        [t |-> "str",  s |-> "Cloudy"]                        *)
(*   a dict          [t |-> "dict", m |-> a function from string keys]     *)
(*   a list          [t |-> "list", l |-> a sequence]                      *)
(* A decoded JSON document has string keys only, so a dict's domain is a   *)
(* set of strings.  A path segment is Key("forecast") or Idx(0).           *)
(***************************************************************************)
EXTENDS Integers, Sequences, FiniteSets, TLC

VARIABLES
    pc,             \* where the current request of the session stands
    collect_data,   \* session['collect_data']: "unset", "on" or "off"
    weather_data,   \* index(): what get_weather_data returned
    data,           \* index(): the outcome of extract_weather_data
    point,          \* write_weather_data(): the point it built
    write_success,  \* index(): what write_weather_data returned
    flash,          \* the message flashed by the current request
    fetch,          \* get_weather_data(): how the HTTP request ended
    store_result,   \* write_weather_data(): how write_api.write ended
    verify_result,  \* verify_data_written(): how its queries ended
    writes,         \* calls of write_api.write in the current request
    verifies,       \* calls of verify_data_written in the current request
    toggles_odd,    \* history: an odd number of toggle requests so far
    acc_data, acc_keys, acc_default,  \* one call of extract_nested_value
    acc_ret, acc_pc,
    enc_args, enc_point, enc_pc,      \* one point built from given arguments
    sl_cache,       \* lru_cache of search_locations, most recently used first
    sl_recent,      \* history: the argument pairs called, most recent first
    sl_call,        \* the last call of search_locations
    rs              \* one run of reset_influxdb: its position and locals

app_vars == <<pc, collect_data, weather_data, data, point, write_success, flash,
              fetch, store_result, verify_result, writes, verifies, toggles_odd>>
acc_vars == <<acc_data, acc_keys, acc_default, acc_ret, acc_pc>>
enc_vars == <<enc_args, enc_point, enc_pc>>
search_vars == <<sl_cache, sl_recent, sl_call>>
reset_vars == <<rs>>
tool_vars == <<search_vars, reset_vars>>
vars == <<app_vars, acc_vars, enc_vars, tool_vars>>

(* ------------------------------------------------------------------ *)
(* Python values                                                      *)
(* ------------------------------------------------------------------ *)
None == [t |-> "none"]
Num(n) == [t |-> "num", n |-> n]
Str(s) == [t |-> "str", s |-> s]
Dict(m) == [t |-> "dict", m |-> m]
List(l) == [t |-> "list", l |-> l]

EmptyMap == [k \in {} |-> None]
EmptyDict == Dict(EmptyMap)

IsDict(v) == v.t = "dict"
IsList(v) == v.t = "list"

Key(k) == [seg |-> "key", k |-> k]
Idx(i) == [seg |-> "idx", i |-> i]
IsKey(sg) == sg.seg = "key"

(* `key in current` for a dict decoded from JSON: an int is never a key. *)
KeyIn(sg, current) == IsKey(sg) /\ sg.k \in DOMAIN current.m

(* Python's current[key]: the value, or an exception (KeyError, IndexError, *)
(* TypeError).  Lists are indexed from 0.                                   *)
Subscript(current, sg) ==
    IF IsDict(current)
    THEN IF KeyIn(sg, current)
         THEN [raised |-> FALSE, value |-> current.m[sg.k]]
         ELSE [raised |-> TRUE, value |-> None]
    ELSE IF IsList(current) /\ ~IsKey(sg) /\ sg.i + 1 \in DOMAIN current.l
         THEN [raised |-> FALSE, value |-> current.l[sg.i + 1]]
         ELSE [raised |-> TRUE, value |-> None]

(* ------------------------------------------------------------------ *)
(* extract_nested_value                                               *)
(* ------------------------------------------------------------------ *)
(* Faulty variant: a traversal without the guard of line 39.        *)
CanApply_unguarded(current, sg) == TRUE

(* `isinstance(current, dict) and key in current` *)
CanApply(current, sg) == IsDict(current) /\ KeyIn(sg, current)

(* The loop from its i-th segment on.  `applied` counts the segments  *)
(* whose subscript was taken.                                         *)
RECURSIVE WalkFrom(_, _, _, _)
WalkFrom(current, keys, i, default) ==
    IF i > Len(keys)
    THEN [value |-> current, applied |-> i - 1, raised |-> FALSE]
    ELSE IF CanApply(current, keys[i])
         THEN LET r == Subscript(current, keys[i])
              IN  IF r.raised
                  THEN [value |-> None, applied |-> i - 1, raised |-> TRUE]
                  ELSE WalkFrom(r.value, keys, i + 1, default)
         ELSE [value |-> default, applied |-> i - 1, raised |-> FALSE]

extract_nested_value(d, keys, default) == WalkFrom(d, keys, 1, default).value

(* ------------------------------------------------------------------ *)
(* Python helpers used by the extractor                               *)
(* ------------------------------------------------------------------ *)
(* bool(v) *)
Truthy(v) ==
    CASE v.t = "none" -> FALSE
      [] v.t = "num"  -> v.n # 0
      [] v.t = "str"  -> v.s # ""
      [] v.t = "dict" -> DOMAIN v.m # {}
      [] v.t = "list" -> Len(v.l) > 0

(* d.get(k, default) of a dict d *)
Get(d, k, default) == IF k \in DOMAIN d.m THEN d.m[k] ELSE default

(* result[k] = v *)
Put(result, k, v) ==
    [x \in DOMAIN result \cup {k} |-> IF x = k THEN v ELSE result[x]]

(* for field in fields: result[prefix + field] = src.get(field) *)
PutFields(result, fields, prefix, src) ==
    LET names == {prefix \o f : f \in fields}
        Field(x) == CHOOSE f \in fields : prefix \o f = x
    IN  [x \in DOMAIN result \cup names |->
            IF x \in names THEN Get(src, Field(x), None) ELSE result[x]]

(* for field in fields: result[field] = None *)
PutNone(result, fields) ==
    [x \in DOMAIN result \cup fields |-> IF x \in fields THEN None ELSE result[x]]

(* str(v) as an f-string renders it *)
StrOf(v) ==
    CASE v.t = "none" -> "None"
      [] v.t = "num"  -> ToString(v.n)
      [] v.t = "str"  -> v.s
      [] v.t = "dict" -> "{...}"
      [] v.t = "list" -> "[...]"

(* ------------------------------------------------------------------ *)
(* extract_weather_data: the field lists                              *)
(* ------------------------------------------------------------------ *)
current_fields ==
    {"last_updated_epoch", "last_updated", "temp_c", "temp_f", "is_day",
     "wind_mph", "wind_kph", "wind_degree", "wind_dir", "pressure_mb",
     "pressure_in", "precip_mm", "precip_in", "humidity", "cloud",
     "feelslike_c", "feelslike_f", "vis_km", "vis_miles", "gust_mph",
     "gust_kph", "uv", "windchill_c", "windchill_f", "heatindex_c",
     "heatindex_f", "dewpoint_c", "dewpoint_f"}

condition_fields == {"text", "icon", "code"}

day_fields ==
    {"maxtemp_c", "maxtemp_f", "mintemp_c", "mintemp_f", "avgtemp_c",
     "avgtemp_f", "maxwind_mph", "maxwind_kph", "totalprecip_mm",
     "totalprecip_in", "totalsnow_cm", "avgvis_km", "avgvis_miles",
     "avghumidity", "daily_will_it_rain", "daily_will_it_snow",
     "daily_chance_of_rain", "daily_chance_of_snow", "uv"}

astro_fields ==
    {"sunrise", "sunset", "moonrise", "moonset", "moon_phase",
     "moon_illumination", "is_sun_up", "is_moon_up"}

hour_fields ==
    {"time_epoch", "time", "temp_c", "temp_f", "is_day", "wind_mph",
     "wind_kph", "wind_degree", "wind_dir", "pressure_mb", "pressure_in",
     "precip_mm", "precip_in", "snow_cm", "humidity", "cloud",
     "feelslike_c", "feelslike_f", "windchill_c", "windchill_f",
     "heatindex_c", "heatindex_f", "dewpoint_c", "dewpoint_f",
     "will_it_rain", "will_it_snow", "chance_of_rain", "chance_of_snow",
     "vis_km", "vis_miles", "gust_mph", "gust_kph", "uv"}

tide_fields == {"tide_time", "tide_height_mt", "tide_type"}

marine_fields ==
    {"sig_ht_mt", "swell_ht_mt", "swell_ht_ft", "swell_dir",
     "swell_dir_16_point", "swell_period_secs", "water_temp_c", "water_temp_f"}

(* Faulty variant: the source keys read under the output names. *)
air_quality_keys_unrenamed ==
    [k \in {"co", "o3", "no2", "so2", "pm2_5", "pm10", "us_epa_index", "gb_defra_index"} |-> k]

(* output key -> source key of current['air_quality'] *)
air_quality_keys ==
    [k \in {"co", "o3", "no2", "so2", "pm2_5", "pm10", "us_epa_index", "gb_defra_index"} |->
        CASE k = "us_epa_index"   -> "us-epa-index"
          [] k = "gb_defra_index" -> "gb-defra-index"
          [] OTHER                -> k]

location_fields ==
    {"name", "region", "country", "lat", "lon", "tz_id", "localtime_epoch", "localtime"}

forecast_day_path == <<Key("forecast"), Key("forecastday"), Idx(0)>>
hour_path == <<Key("hour"), Idx(0)>>
tide_path == <<Key("tides"), Idx(0), Key("tide"), Idx(0)>>
alerts_path == <<Key("alerts"), Key("alert"), Idx(0), Key("headline")>>

(* Faulty variant: the absent value in place of the sentinel string. *)
alerts_default_absent == None

(* the default of line 144 *)
alerts_default == Str("None")

(* ------------------------------------------------------------------ *)
(* extract_weather_data: its locals, each as the code computes it.    *)
(* A .get on a value that is no dict raises AttributeError; the       *)
(* locals below are only read where the code has reached them.        *)
(* ------------------------------------------------------------------ *)
(* Faulty variant: weather_data.get('current') without the {} default. *)
current_of_no_default(wd) == Get(wd, "current", None)

current_of(wd) == Get(wd, "current", EmptyDict)
condition_of(wd) == Get(current_of(wd), "condition", EmptyDict)
forecast_day_of(wd) == extract_nested_value(wd, forecast_day_path, EmptyDict)
day_of(wd) == Get(forecast_day_of(wd), "day", EmptyDict)
day_condition_of(wd) == Get(day_of(wd), "condition", EmptyDict)
astro_of(wd) == Get(forecast_day_of(wd), "astro", EmptyDict)
hour_data_of(wd) == extract_nested_value(forecast_day_of(wd), hour_path, EmptyDict)
hour_condition_of(wd) == Get(hour_data_of(wd), "condition", EmptyDict)
marine_data_of(wd) == Get(wd, "marine", None)
tide_data_of(wd) == extract_nested_value(marine_data_of(wd), tide_path, EmptyDict)
location_of(wd) == Get(wd, "location", EmptyDict)

Ok(result) == [raised |-> FALSE, result |-> result]
Raise(result) == [raised |-> TRUE, result |-> result]

(* One block of the function body: the result so far -> the result    *)
(* after it, or an exception.  Stage numbers follow the code order.   *)
Stages == 1..13

Stage(n, wd, result) ==
    CASE n = 1 ->   \* current weather fields, lines 50-57
            IF ~IsDict(current_of(wd)) THEN Raise(result)
            ELSE Ok(PutFields(result, current_fields, "", current_of(wd)))
      [] n = 2 ->   \* condition, lines 60-63
            IF ~IsDict(condition_of(wd)) THEN Raise(result)
            ELSE Ok(PutFields(result, condition_fields, "condition_", condition_of(wd)))
      [] n = 3 ->   \* forecast day, lines 66-68
            IF ~IsDict(forecast_day_of(wd)) THEN Raise(result)
            ELSE Ok(PutFields(result, {"date", "date_epoch"}, "", forecast_day_of(wd)))
      [] n = 4 ->   \* day data, lines 71-78
            IF ~IsDict(day_of(wd)) THEN Raise(result)
            ELSE Ok(PutFields(result, day_fields, "", day_of(wd)))
      [] n = 5 ->   \* day condition, lines 81-84
            IF ~IsDict(day_condition_of(wd)) THEN Raise(result)
            ELSE Ok(PutFields(result, condition_fields, "day_condition_", day_condition_of(wd)))
      [] n = 6 ->   \* astro, lines 87-91
            IF ~IsDict(astro_of(wd)) THEN Raise(result)
            ELSE Ok(PutFields(result, astro_fields, "", astro_of(wd)))
      [] n = 7 ->   \* hour data and hour condition, lines 94-110
            IF ~Truthy(hour_data_of(wd)) THEN Ok(result)
            ELSE IF ~IsDict(hour_data_of(wd)) THEN Raise(result)
            ELSE IF ~IsDict(hour_condition_of(wd))
                 THEN Raise(PutFields(result, hour_fields, "hour_", hour_data_of(wd)))
            ELSE Ok(PutFields(PutFields(result, hour_fields, "hour_", hour_data_of(wd)),
                              condition_fields, "hour_condition_", hour_condition_of(wd)))
      [] n = 8 ->   \* tide data, lines 113-120
            IF ~Truthy(tide_data_of(wd)) THEN Ok(result)
            ELSE IF ~IsDict(tide_data_of(wd)) THEN Raise(result)
            ELSE Ok(PutFields(result, tide_fields, "", tide_data_of(wd)))
      [] n = 9 ->   \* marine hour data, lines 123-126
            IF ~Truthy(hour_data_of(wd)) THEN Ok(PutNone(result, marine_fields))
            ELSE IF ~IsDict(hour_data_of(wd)) THEN Raise(result)
            ELSE Ok(PutFields(result, marine_fields, "", hour_data_of(wd)))
      [] n = 10 ->  \* air quality, lines 129-141
            IF "air_quality" \in DOMAIN current_of(wd).m
            THEN LET aq == current_of(wd).m["air_quality"]
                 IN  IF ~IsDict(aq) THEN Raise(result)
                     ELSE Ok(Put(result, "air_quality",
                                 Dict([k \in DOMAIN air_quality_keys |->
                                          Get(aq, air_quality_keys[k], None)])))
            ELSE Ok(Put(result, "air_quality", EmptyDict))
      [] n = 11 ->  \* alerts, line 144
            Ok(Put(result, "alerts",
                   extract_nested_value(wd, alerts_path, alerts_default)))
      [] n = 12 ->  \* location data, lines 147-157
            IF ~IsDict(location_of(wd)) THEN Raise(result)
            ELSE Ok(Put(result, "location_data",
                        Dict([k \in location_fields |-> Get(location_of(wd), k, None)])))
      [] n = 13 ->  \* formatted location, line 160
            Ok(Put(result, "formatted_location",
                   Str(StrOf(Get(location_of(wd), "name", Str(""))) \o ", "
                       \o StrOf(Get(location_of(wd), "country", Str(""))))))

(* The body from stage k on; an exception leaves the function at once. *)
RECURSIVE RunFrom(_, _, _)
RunFrom(k, wd, result) ==
    IF k \notin Stages
    THEN [raised |-> FALSE, stage |-> 0, result |-> result]
    ELSE LET r == Stage(k, wd, result)
         IN  IF r.raised
             THEN [raised |-> TRUE, stage |-> k, result |-> r.result]
             ELSE RunFrom(k + 1, wd, r.result)

(* weather_data is the truthy value index() passes: weather_data.get   *)
(* raises on anything but a dict.                                      *)
extract_weather_data(wd) ==
    IF ~IsDict(wd)
    THEN [raised |-> TRUE, stage |-> 1, result |-> EmptyMap]
    ELSE RunFrom(1, wd, EmptyMap)

(* ------------------------------------------------------------------ *)
(* index(): the arguments of its write_weather_data call.  A          *)
(* parameter is read as data[key] (KeyError when the key is missing)  *)
(* or as data.get(key).                                               *)
(* ------------------------------------------------------------------ *)
same_named_args ==
    {"last_updated_epoch", "last_updated", "temp_c", "temp_f", "is_day",
     "wind_mph", "wind_kph", "wind_degree", "pressure_mb", "pressure_in",
     "precip_mm", "precip_in", "vis_km", "vis_miles", "gust_mph", "gust_kph",
     "feelslike_c", "feelslike_f", "windchill_c", "windchill_f", "heatindex_c",
     "heatindex_f", "dewpoint_c", "dewpoint_f",
     "date", "date_epoch", "maxtemp_c", "maxtemp_f", "mintemp_c", "mintemp_f",
     "avgtemp_c", "avgtemp_f", "totalprecip_mm", "totalprecip_in", "totalsnow_cm",
     "avgvis_km", "avgvis_miles", "avghumidity", "daily_will_it_rain",
     "daily_will_it_snow", "daily_chance_of_rain", "daily_chance_of_snow",
     "moonrise", "moonset", "moon_phase", "moon_illumination", "is_sun_up",
     "is_moon_up", "alerts", "air_quality", "location_data"}

same_named_get_args ==
    {"sunrise", "sunset", "tide_time", "tide_height_mt", "tide_type", "sig_ht_mt",
     "swell_ht_mt", "swell_ht_ft", "swell_dir", "swell_dir_16_point",
     "swell_period_secs", "water_temp_c", "water_temp_f"}

hour_get_args ==
    {"time_epoch", "time", "will_it_rain", "will_it_snow", "chance_of_rain",
     "chance_of_snow", "snow_cm"}

renamed_args ==
    {"location", "temperature", "feels_like", "wind", "pressure", "uv_index",
     "visibility", "condition", "precipitation", "cloud_cover", "wind_direction",
     "gust", "humidity", "icon", "code", "max_wind_mph", "max_wind_kph"}

write_params ==
    same_named_args \cup same_named_get_args \cup hour_get_args
        \cup renamed_args \cup {"tides"}

(* the key of `data` a parameter is read from *)
arg_key(param) ==
    CASE param = "location"       -> "formatted_location"
      [] param = "temperature"    -> "temp_c"
      [] param = "humidity"       -> "humidity"
      [] param = "feels_like"     -> "feelslike_c"
      [] param = "wind"           -> "wind_kph"
      [] param = "pressure"       -> "pressure_mb"
      [] param = "uv_index"       -> "uv"
      [] param = "visibility"     -> "vis_km"
      [] param = "condition"      -> "condition_text"
      [] param = "precipitation"  -> "precip_mm"
      [] param = "cloud_cover"    -> "cloud"
      [] param = "wind_direction" -> "wind_dir"
      [] param = "gust"           -> "gust_kph"
      [] param = "icon"           -> "condition_icon"
      [] param = "code"           -> "condition_code"
      [] param = "max_wind_mph"   -> "maxwind_mph"
      [] param = "max_wind_kph"   -> "maxwind_kph"
      [] param \in hour_get_args  -> "hour_" \o param
      [] OTHER                    -> param

by_get(param) == param \in same_named_get_args \cup hour_get_args

(* the keys index() subscripts: a missing one raises KeyError *)
index_raises(rec) ==
    \E param \in write_params \ {"tides"} :
        ~by_get(param) /\ arg_key(param) \notin DOMAIN rec

index_args(rec) ==
    [param \in write_params |->
        IF param = "tides" THEN None
        ELSE IF arg_key(param) \in DOMAIN rec THEN rec[arg_key(param)]
        ELSE None]

(* ------------------------------------------------------------------ *)
(* influxdb_service: add_field_to_point and the point that            *)
(* write_weather_data builds                                          *)
(* ------------------------------------------------------------------ *)
Float(n) == [kind |-> "float", f |-> n]
String(s) == [kind |-> "string", s |-> s]

(* the strings float() parses, with the number it gives *)
numeric_strings == [s \in {"12", "0"} |-> IF s = "12" THEN 12 ELSE 0]

(* float(value): a number, or ValueError / TypeError *)
FloatOf(value) ==
    CASE value.t = "num" -> [raised |-> FALSE, f |-> value.n]
      [] value.t = "str" /\ value.s \in DOMAIN numeric_strings
                         -> [raised |-> FALSE, f |-> numeric_strings[value.s]]
      [] OTHER           -> [raised |-> TRUE, f |-> 0]

(* point.field(name, v) *)
SetField(fields, name, v) ==
    [x \in DOMAIN fields \cup {name} |-> IF x = name THEN v ELSE fields[x]]

(* Faulty variant: no test for None before the field is written. *)
add_field_to_point_keeps_none(fields, name, value, is_string) ==
    IF is_string THEN SetField(fields, name, String(StrOf(value)))
    ELSE IF FloatOf(value).raised THEN fields
    ELSE SetField(fields, name, Float(FloatOf(value).f))

(* Faulty variant: a value float() refuses is written as a string. *)
add_field_to_point_fallback(fields, name, value, is_string) ==
    IF value = None THEN fields
    ELSE IF is_string THEN SetField(fields, name, String(StrOf(value)))
    ELSE IF FloatOf(value).raised
    THEN SetField(fields, name, String(StrOf(value)))
    ELSE SetField(fields, name, Float(FloatOf(value).f))

(* Faulty variant: the value decides the kind, a float whenever it converts. *)
add_field_to_point_by_value(fields, name, value, is_string) ==
    IF value = None THEN fields
    ELSE IF FloatOf(value).raised
    THEN SetField(fields, name, String(StrOf(value)))
    ELSE SetField(fields, name, Float(FloatOf(value).f))

(* add_field_to_point: None is skipped, a string field takes str(value), *)
(* a numeric field float(value) or nothing when float() raises           *)
add_field_to_point(fields, name, value, is_string) ==
    IF value = None THEN fields
    ELSE IF is_string THEN SetField(fields, name, String(StrOf(value)))
    ELSE IF FloatOf(value).raised THEN fields
    ELSE SetField(fields, name, Float(FloatOf(value).f))

numeric_fields ==
    {"temperature", "humidity", "feels_like", "wind", "pressure", "uv_index",
     "visibility", "precipitation", "cloud_cover", "gust",
     "last_updated_epoch", "temp_c", "temp_f", "is_day", "code", "wind_mph",
     "wind_kph", "wind_degree", "pressure_mb", "pressure_in", "precip_mm",
     "precip_in", "vis_km", "vis_miles", "gust_mph", "gust_kph", "feelslike_c",
     "feelslike_f", "windchill_c", "windchill_f", "heatindex_c", "heatindex_f",
     "dewpoint_c", "dewpoint_f",
     "date_epoch", "maxtemp_c", "maxtemp_f", "mintemp_c", "mintemp_f",
     "avgtemp_c", "avgtemp_f", "max_wind_mph", "max_wind_kph", "totalprecip_mm",
     "totalprecip_in", "totalsnow_cm", "avgvis_km", "avgvis_miles", "avghumidity",
     "daily_will_it_rain", "daily_will_it_snow", "daily_chance_of_rain",
     "daily_chance_of_snow",
     "is_sun_up", "is_moon_up",
     "time_epoch", "will_it_rain", "will_it_snow", "chance_of_rain",
     "chance_of_snow", "snow_cm",
     "tide_height_mt", "sig_ht_mt", "swell_ht_mt", "swell_ht_ft", "swell_dir",
     "swell_period_secs", "water_temp_c", "water_temp_f"}

string_fields ==
    {"sunrise", "sunset", "alerts", "condition", "wind_direction", "last_updated",
     "icon", "date", "moonrise", "moonset", "moon_phase", "moon_illumination",
     "time", "tides", "tide_time", "tide_type", "swell_dir_16_point"}

numeric_location_keys == {"lat", "lon", "localtime_epoch"}

NoFields == [x \in {} |-> String("")]

(* for name, value in <dict>.items(): point = add_field_to_point(...)   *)
(* The names of one dict are distinct, so each call adds or skips its   *)
(* own field and the order within the dict does not matter.             *)
AddAll(fields, names, prefix, values, is_string) ==
    LET One(n) == add_field_to_point(NoFields, prefix \o n, values[n], is_string)
        added == {n \in names : prefix \o n \in DOMAIN One(n)}
        Name(x) == CHOOSE n \in added : prefix \o n = x
    IN  [x \in DOMAIN fields \cup {prefix \o n : n \in added} |->
            IF x \in {prefix \o n : n \in added}
            THEN One(Name(x))[x]
            ELSE fields[x]]

(* the point of lines 105-233, from the call's arguments *)
BuildPoint(args) ==
    LET f1 == AddAll(NoFields, numeric_fields, "", args, FALSE)
        f2 == AddAll(f1, string_fields, "", args, TRUE)
        aq == args["air_quality"]
        f3 == IF Truthy(aq)
              THEN AddAll(f2, {k \in DOMAIN aq.m : aq.m[k] # None},
                          "air_quality_", aq.m, FALSE)
              ELSE f2
        ld == args["location_data"]
        f4 == IF Truthy(ld)
              THEN AddAll(AddAll(f3, {k \in DOMAIN ld.m : ld.m[k] # None /\ k \in numeric_location_keys},
                                 "location_", ld.m, FALSE),
                          {k \in DOMAIN ld.m : ld.m[k] # None /\ k \notin numeric_location_keys},
                          "location_", ld.m, TRUE)
              ELSE f3
    IN  [measurement |-> "weather_data",
         tags |-> [location |-> args["location"]],
         fields |-> f4]

(* ------------------------------------------------------------------ *)
(* The responses of the weather API that the model draws from: a      *)
(* well-formed sample, with each optional branch present, missing,    *)
(* null or empty, and lists of bounded length.                        *)
(* ------------------------------------------------------------------ *)
MaxDays == 2
MaxHours == 2
MaxAlerts == 2

Absent == [t |-> "absent"]

(* the dict of the given pairs, without the keys whose value is Absent *)
DictOf(m) == Dict([k \in {x \in DOMAIN m : m[x] # Absent} |-> m[k]])

StringValued ==
    {"last_updated", "wind_dir", "time", "date", "sunrise", "sunset", "moonrise",
     "moonset", "moon_phase", "swell_dir_16_point", "tide_time", "tide_type",
     "text", "icon", "name", "region", "country", "tz_id", "localtime"}

(* the sample value of field f in a branch whose numbers start at base *)
SampleValue(f, base) ==
    IF f \in StringValued THEN Str(f \o "-" \o ToString(base))
    ELSE IF f = "uv" THEN Num(base + 1)
    ELSE Num(base)

SampleCondition(base) ==
    Dict([f \in condition_fields |-> SampleValue(f, base)])

SampleAirQuality ==
    Dict([k \in {"co", "o3", "no2", "so2", "pm2_5", "pm10", "us-epa-index", "gb-defra-index"} |->
            CASE k = "us-epa-index"   -> Num(2)
              [] k = "gb-defra-index" -> Num(1)
              [] OTHER                -> Num(40)])

PartialAirQuality == Dict([k \in {"co", "us-epa-index"} |-> Num(3)])

SampleCurrent(aq) ==
    DictOf([f \in current_fields \cup {"condition", "air_quality"} |->
              CASE f = "condition"   -> SampleCondition(1003)
                [] f = "air_quality" -> aq
                [] OTHER             -> SampleValue(f, 18)])

(* the scenario of spec section 8: temp_c and a condition without icon *)
SparseCurrent(aq) ==
    DictOf([f \in {"temp_c", "condition", "air_quality"} |->
              CASE f = "temp_c"      -> Num(18)
                [] f = "condition"   -> Dict([c \in {"text", "code"} |-> SampleValue(c, 1003)])
                [] f = "air_quality" -> aq])

CurrentOptions ==
    {Absent, None, EmptyDict,
     SampleCurrent(Absent), SampleCurrent(SampleAirQuality), SampleCurrent(None),
     SparseCurrent(Absent), SparseCurrent(PartialAirQuality)}

(* hour j of a day: the hourly fields, the marine fields merged in, a condition *)
SampleHour(j) ==
    Dict([f \in hour_fields \cup marine_fields \cup {"condition"} |->
            IF f = "condition" THEN SampleCondition(1100 + j)
            ELSE SampleValue(f, 10 * j)])

HourOptions == {Absent} \cup {List([j \in 1..n |-> SampleHour(j)]) : n \in 0..MaxHours}

SampleDay(i, hours) ==
    DictOf([f \in {"date", "date_epoch", "day", "astro", "hour"} |->
              CASE f = "day"   -> Dict([g \in day_fields \cup {"condition"} |->
                                          IF g = "condition" THEN SampleCondition(1200 + i)
                                          ELSE SampleValue(g, 20 + i)])
                [] f = "astro" -> Dict([g \in astro_fields |-> SampleValue(g, 5 + i)])
                [] f = "hour"  -> hours
                [] OTHER       -> SampleValue(f, 1700 + i)])

ForecastDays(n, hours) ==
    Dict([k \in {"forecastday"} |->
            List([i \in 1..n |->
                    SampleDay(i, IF i = 1 THEN hours ELSE List(<<SampleHour(1)>>))])])

ForecastOptions ==
    {Absent, None}
    \cup {ForecastDays(1, hours) : hours \in HourOptions}
    \cup {ForecastDays(n, List(<<SampleHour(1)>>)) : n \in 0..MaxDays}

SampleTide == Dict([f \in tide_fields |-> SampleValue(f, 2)])

MarineOptions ==
    {Absent,
     Dict([k \in {"tides"} |-> List(<<>>)]),
     Dict([k \in {"tides"} |-> List(<<Dict([t \in {"tide"} |-> List(<<SampleTide>>)])>>)])}

SampleAlert(i) ==
    Dict([f \in {"headline", "severity"} |-> Str(f \o "-" \o ToString(i))])

AlertsOptions ==
    {Absent, EmptyDict}
    \cup {Dict([k \in {"alert"} |-> List([i \in 1..n |-> SampleAlert(i)])]) :
            n \in 0..MaxAlerts}

LocationOptions ==
    {Absent, None,
     Dict([f \in location_fields |-> SampleValue(f, 48)]),
     Dict([f \in {"country"} |-> Str("France")]),
     Dict([f \in {"name", "country"} |-> IF f = "name" THEN None ELSE Str("France")])}

Responses ==
    {DictOf([k \in {"current", "forecast", "marine", "alerts", "location"} |->
               CASE k = "current"  -> c
                 [] k = "forecast" -> f
                 [] k = "marine"   -> m
                 [] k = "alerts"   -> a
                 [] k = "location" -> l]) :
        c \in CurrentOptions, f \in ForecastOptions, m \in MarineOptions,
        a \in AlertsOptions, l \in LocationOptions}

(* ------------------------------------------------------------------ *)
(* The accessor on its own: data, path and default drawn from bounded *)
(* sets, then one call.                                               *)
(* ------------------------------------------------------------------ *)
MaxDepth == 2
MaxPathLen == 3

Leaf == {None, Num(7), Str("s")}

RECURSIVE Tree(_)
Tree(d) ==
    IF d = 0
    THEN Leaf \cup {EmptyDict, List(<<>>)}
    ELSE LET sub == Tree(d - 1)
         IN  sub
             \cup {Dict([k \in {"a"} |-> c]) : c \in sub}
             \cup {Dict([k \in {"a", "b"} |-> IF k = "a" THEN c ELSE Num(9)]) : c \in sub}
             \cup {List(<<c>>) : c \in sub}
             \cup {List(<<Num(9), c>>) : c \in sub}

Segs == {Key("a"), Key("b"), Idx(0), Idx(1)}

Paths == UNION {[1..n -> Segs] : n \in 0..MaxPathLen}

Defaults == {None, EmptyDict, Str("None")}

NoRet == [value |-> None, applied |-> 0, raised |-> FALSE]
NoData == [raised |-> FALSE, stage |-> 0, result |-> EmptyMap]
NoPoint == [measurement |-> "", tags |-> [location |-> Str("")], fields |-> NoFields]

(* no request in progress, a fresh session *)
AppIdle ==
    /\ pc = "idle"
    /\ collect_data = "unset"
    /\ weather_data = None
    /\ data = NoData
    /\ point = NoPoint
    /\ write_success = "unset"
    /\ flash = "none"
    /\ fetch = "none"
    /\ store_result = "none"
    /\ verify_result = "none"
    /\ writes = 0
    /\ verifies = 0
    /\ toggles_odd = FALSE

(* no accessor call under study *)
AccIdle ==
    /\ acc_data = None
    /\ acc_keys = <<>>
    /\ acc_default = None
    /\ acc_ret = NoRet
    /\ acc_pc = "off"

(* no encoder call under study *)
EncIdle ==
    /\ enc_args = EmptyMap
    /\ enc_point = NoPoint
    /\ enc_pc = "off"

(* search_locations not called yet, its cache empty *)
NoCall == [key |-> <<"", "">>, hit |-> FALSE, cached |-> None,
           requested |-> FALSE, ret |-> None]

SearchIdle ==
    /\ sl_cache = <<>>
    /\ sl_recent = <<>>
    /\ sl_call = NoCall

(* reset_influxdb.py not run *)
NoReset == [pc |-> "off", confirm |-> "unanswered", bulk |-> "none",
            main |-> "none", measurements |-> <<>>, i |-> 0,
            success_count |-> 0, error_count |-> 0, deletes |-> 0,
            verification |-> "none", ret |-> "unset"]

ResetIdle == rs = NoReset

ToolIdle == SearchIdle /\ ResetIdle

InitAccessor ==
    /\ acc_data \in Tree(MaxDepth)
    /\ acc_keys \in Paths
    /\ acc_default \in Defaults
    /\ acc_ret = NoRet
    /\ acc_pc = "call"
    /\ AppIdle
    /\ EncIdle
    /\ ToolIdle

CallAccessor ==
    /\ acc_pc = "call"
    /\ acc_ret' = WalkFrom(acc_data, acc_keys, 1, acc_default)
    /\ acc_pc' = "returned"
    /\ UNCHANGED <<acc_data, acc_keys, acc_default>>
    /\ UNCHANGED <<app_vars, enc_vars, tool_vars>>

NextAccessor == CallAccessor

SpecAccessor == InitAccessor /\ [][NextAccessor]_vars

(* ------------------------------------------------------------------ *)
(* The encoder on its own: the arguments of write_weather_data drawn  *)
(* from bounded sets, then the point of lines 105-233 built.          *)
(* All scalar parameters share one value, except one parameter that   *)
(* has its own; air_quality and location_data are drawn separately.   *)
(* ------------------------------------------------------------------ *)
ArgValues == {None, Num(12), Str("12"), Str("N/A")}

scalar_params == write_params \ {"location", "air_quality", "location_data"}

AirQualityArgs ==
    {None, EmptyDict,
     Dict([k \in {"co", "o3", "us_epa_index"} |->
             CASE k = "co" -> Num(40) [] k = "o3" -> None [] OTHER -> Str("12")]),
     Dict([k \in {"co", "pm10"} |-> IF k = "co" THEN Str("N/A") ELSE None])}

LocationDataArgs ==
    {None, EmptyDict,
     Dict([k \in location_fields |->
             CASE k \in {"name", "country"}      -> Str(k)
               [] k \in {"lat", "localtime_epoch"} -> Num(48)
               [] k = "tz_id"                    -> Num(12)
               [] OTHER                          -> None])}

EncoderArgs ==
    {[param \in write_params |->
        CASE param = "location"      -> Str("Paris, France")
          [] param = "air_quality"   -> aq
          [] param = "location_data" -> ld
          [] param = p               -> v
          [] OTHER                   -> b] :
        b \in ArgValues, p \in scalar_params, v \in ArgValues,
        aq \in AirQualityArgs, ld \in LocationDataArgs}

InitEncoder ==
    /\ enc_args \in EncoderArgs
    /\ enc_point = NoPoint
    /\ enc_pc = "call"
    /\ AppIdle
    /\ AccIdle
    /\ ToolIdle

EncodePoint ==
    /\ enc_pc = "call"
    /\ enc_point' = BuildPoint(enc_args)
    /\ enc_pc' = "built"
    /\ UNCHANGED enc_args
    /\ UNCHANGED <<app_vars, acc_vars, tool_vars>>

NextEncoder == EncodePoint

SpecEncoder == InitEncoder /\ [][NextEncoder]_vars

(* ------------------------------------------------------------------ *)
(* The web application: one session, its requests one after another.  *)
(* ------------------------------------------------------------------ *)
(* DATA_COLLECTION_DEFAULT = False *)
DATA_COLLECTION_DEFAULT == "off"

(* session.get('collect_data', DATA_COLLECTION_DEFAULT) *)
SessionCollect ==
    IF collect_data = "unset" THEN DATA_COLLECTION_DEFAULT ELSE collect_data

(* if 'collect_data' not in session: session['collect_data'] = default *)
SessionInit ==
    IF collect_data = "unset" THEN DATA_COLLECTION_DEFAULT ELSE collect_data

(* how session.get(url, params, timeout) and response.json() can end *)
fetch_failures ==
    {"timeout", "connection_error", "http_error", "request_exception",
     "json_decode_error", "unexpected_error"}

(* Faulty variant: the handlers stop at RequestException, anything else *)
(* leaves the function as an exception.                                 *)
get_weather_data_unhandled(outcome, body) ==
    CASE outcome = "ok" -> [raised |-> FALSE, value |-> body]
      [] outcome \in {"json_decode_error", "unexpected_error"}
                        -> [raised |-> TRUE, value |-> None]
      [] OTHER          -> [raised |-> FALSE, value |-> None]

(* get_weather_data: the body on success, handle_request_error's None *)
(* from every except clause                                           *)
get_weather_data(outcome, body) ==
    IF outcome = "ok"
    THEN [raised |-> FALSE, value |-> body]
    ELSE [raised |-> FALSE, value |-> None]

(* how write_api.write can end: it returns, or the name write_api is *)
(* undefined, or the client raises                                   *)
store_failures ==
    {"no_write_api", "connection_error", "type_conflict", "timeout"}

(* Faulty variant: no except clause around the write. *)
write_except_propagates(outcome) == [raised |-> TRUE, ret |-> "unset"]

(* except Exception as e: ... return False *)
write_except(outcome) == [raised |-> FALSE, ret |-> "false"]

(* Faulty variant: the verification runs whatever the write did. *)
after_write_always_verify(outcome) == "verify"

(* the statement after write_api.write: the verification when the write *)
(* returned, the except clause when it raised                           *)
after_write(outcome) == IF outcome = "ok" THEN "verify" ELSE "done"

(* how the two queries of verify_data_written can end *)
verify_outcomes == {"found", "found_temperature", "not_found", "query_error"}

(* verify_data_written: True when either measurement has records, False *)
(* when neither has or when a query raised                              *)
verify_data_written(outcome) == outcome \in {"found", "found_temperature"}

(* Faulty variant: the write's own success is the result. *)
write_return_ignores_verification(verification) == "true"

(* verification = verify_data_written(location); return verification *)
write_return(verification) == IF verification THEN "true" ELSE "false"

Init == AppIdle /\ AccIdle /\ EncIdle /\ ToolIdle

request_vars ==
    <<weather_data, data, point, write_success, flash,
      fetch, store_result, verify_result, writes, verifies>>

(* POST /toggle_data_collection *)
toggle_data_collection ==
    /\ pc = "idle"
    /\ collect_data' = IF SessionCollect = "on" THEN "off" ELSE "on"
    /\ toggles_odd' = ~toggles_odd
    /\ UNCHANGED <<pc, request_vars>>
    /\ UNCHANGED <<acc_vars, enc_vars, tool_vars>>

(* GET /, or POST / with an empty location *)
IndexNoLocation ==
    /\ pc = "idle"
    /\ collect_data' = SessionInit
    /\ \E msg \in {"none", "enter_location"} : flash' = msg
    /\ pc' = "done"
    /\ UNCHANGED <<weather_data, data, point, write_success, fetch,
                   store_result, verify_result, writes, verifies, toggles_odd>>
    /\ UNCHANGED <<acc_vars, enc_vars, tool_vars>>

(* POST / with a location: the fetch and the branch on its result *)
IndexPost ==
    /\ pc = "idle"
    /\ collect_data' = SessionInit
    /\ \E outcome \in {"ok"} \cup fetch_failures :
       \E body \in IF outcome = "ok" THEN Responses \cup {None, EmptyDict}
                                     ELSE {None} :
          LET r == get_weather_data(outcome, body)
          IN  /\ fetch' = outcome
              /\ weather_data' = r.value
              /\ IF r.raised
                 THEN flash' = "server_error" /\ pc' = "done"
                 ELSE IF ~Truthy(r.value)
                 THEN flash' = "unable" /\ pc' = "done"
                 ELSE IF SessionInit = "on"
                 THEN flash' = flash /\ pc' = "extract"
                 ELSE flash' = "not_saved" /\ pc' = "done"
    /\ UNCHANGED <<data, point, write_success, store_result, verify_result,
                   writes, verifies, toggles_odd>>
    /\ UNCHANGED <<acc_vars, enc_vars, tool_vars>>

(* data = extract_weather_data(weather_data) and the evaluation of the *)
(* arguments of write_weather_data, inside index's try                 *)
Extract ==
    /\ pc = "extract"
    /\ LET r == extract_weather_data(weather_data)
       IN  /\ data' = r
           /\ IF r.raised \/ index_raises(r.result)
              THEN flash' = "processing_error" /\ pc' = "done"
              ELSE flash' = flash /\ pc' = "build"
    /\ UNCHANGED <<collect_data, weather_data, point, write_success, fetch,
                   store_result, verify_result, writes, verifies, toggles_odd>>
    /\ UNCHANGED <<acc_vars, enc_vars, tool_vars>>

(* write_weather_data, lines 101-233: the point *)
Build ==
    /\ pc = "build"
    /\ point' = BuildPoint(index_args(data.result))
    /\ pc' = "store"
    /\ UNCHANGED <<collect_data, weather_data, data, write_success, flash,
                   fetch, store_result, verify_result, writes, verifies,
                   toggles_odd>>
    /\ UNCHANGED <<acc_vars, enc_vars, tool_vars>>

(* write_weather_data, lines 235-246: write_api.write and, when it *)
(* raises, the except clause                                       *)
StoreWrite ==
    /\ pc = "store"
    /\ writes' = writes + 1
    /\ \E outcome \in {"ok"} \cup store_failures :
          /\ store_result' = outcome
          /\ pc' = after_write(outcome)
          /\ IF outcome = "ok"
             THEN UNCHANGED <<write_success, flash>>
             ELSE LET r == write_except(outcome)
                  IN  /\ write_success' = r.ret
                      /\ flash' = IF r.raised THEN "processing_error"
                                              ELSE "save_failed"
    /\ UNCHANGED <<collect_data, weather_data, data, point, fetch,
                   verify_result, verifies, toggles_odd>>
    /\ UNCHANGED <<acc_vars, enc_vars, tool_vars>>

(* write_weather_data, lines 239-241, and index's flash on its result *)
Verify ==
    /\ pc = "verify"
    /\ verifies' = verifies + 1
    /\ \E outcome \in verify_outcomes :
          /\ verify_result' = outcome
          /\ write_success' = write_return(verify_data_written(outcome))
          /\ flash' = IF write_success' = "true" THEN "saved"
                                                ELSE "save_failed"
    /\ pc' = "done"
    /\ UNCHANGED <<collect_data, weather_data, data, point, fetch,
                   store_result, writes, toggles_odd>>
    /\ UNCHANGED <<acc_vars, enc_vars, tool_vars>>

(* return render_template(...) / redirect: the request is over *)
Respond ==
    /\ pc = "done"
    /\ pc' = "idle"
    /\ weather_data' = None
    /\ data' = NoData
    /\ point' = NoPoint
    /\ write_success' = "unset"
    /\ flash' = "none"
    /\ fetch' = "none"
    /\ store_result' = "none"
    /\ verify_result' = "none"
    /\ writes' = 0
    /\ verifies' = 0
    /\ UNCHANGED <<collect_data, toggles_odd>>
    /\ UNCHANGED <<acc_vars, enc_vars, tool_vars>>

Next ==
    \/ toggle_data_collection
    \/ IndexNoLocation
    \/ IndexPost
    \/ Extract
    \/ Build
    \/ StoreWrite
    \/ Verify
    \/ Respond

Spec == Init /\ [][Next]_vars

(* ------------------------------------------------------------------ *)
(* search_locations behind @lru_cache: calls one after another.       *)
(* ------------------------------------------------------------------ *)
(* the capacity of the cache: lru_cache(maxsize=32), taken smaller    *)
(* than the number of argument pairs so that entries are evicted      *)
MaxCache == 2

ApiKeys == {"key-a", "key-b"}
Queries == {"Paris", "Lond"}
SearchKeys == ApiKeys \X Queries

(* the bodies a successful search request can return *)
SearchBodies == {List(<<>>), List(<<Str("Paris")>>)}

(* the wrapped function: the body on success, handle_request_error's *)
(* None from every except clause                                     *)
search_request(outcome, body) == IF outcome = "ok" THEN body ELSE None

CacheKeys(cache) == {cache[i].key : i \in DOMAIN cache}
CacheValue(cache, key) ==
    cache[CHOOSE i \in DOMAIN cache : cache[i].key = key].value
WithoutKey(cache, key) == SelectSeq(cache, LAMBDA e : e.key # key)
Front(seq, n) == SubSeq(seq, 1, IF Len(seq) < n THEN Len(seq) ELSE n)

(* a hit: the entry becomes the most recently used *)
cache_hit(cache, key) ==
    <<[key |-> key, value |-> CacheValue(cache, key)]>> \o WithoutKey(cache, key)

(* Faulty variant: a None result is not stored. *)
cache_miss_skips_none(cache, key, value) ==
    IF value = None THEN cache
    ELSE Front(<<[key |-> key, value |-> value]>> \o cache, MaxCache)

(* a miss: the result, whatever it is, is stored as the most recently *)
(* used entry and the least recently used one leaves a full cache     *)
cache_miss(cache, key, value) ==
    Front(<<[key |-> key, value |-> value]>> \o cache, MaxCache)

InitSearch ==
    /\ SearchIdle
    /\ ResetIdle
    /\ AppIdle
    /\ AccIdle
    /\ EncIdle

(* one call search_locations(api_key, query) *)
search_locations ==
    /\ \E key \in SearchKeys :
          /\ sl_recent' = <<key>> \o SelectSeq(sl_recent, LAMBDA k : k # key)
          /\ IF key \in CacheKeys(sl_cache)
             THEN /\ sl_cache' = cache_hit(sl_cache, key)
                  /\ sl_call' = [key |-> key, hit |-> TRUE,
                                 cached |-> CacheValue(sl_cache, key),
                                 requested |-> FALSE,
                                 ret |-> CacheValue(sl_cache, key)]
             ELSE \E outcome \in {"ok"} \cup fetch_failures :
                  \E body \in IF outcome = "ok" THEN SearchBodies ELSE {None} :
                     LET value == search_request(outcome, body)
                     IN  /\ sl_cache' = cache_miss(sl_cache, key, value)
                         /\ sl_call' = [key |-> key, hit |-> FALSE,
                                        cached |-> None, requested |-> TRUE,
                                        ret |-> value]
    /\ UNCHANGED <<app_vars, acc_vars, enc_vars, reset_vars>>

NextSearch == search_locations

SpecSearch == InitSearch /\ [][NextSearch]_vars

(* ------------------------------------------------------------------ *)
(* reset_influxdb.py: one run of reset_influxdb, statement by         *)
(* statement where a call can raise.                                  *)
(* ------------------------------------------------------------------ *)
(* what the user can type at the prompt *)
Answers == {"yes", "YES", "Yes", "y", "no", "", " yes"}

(* str.lower() on those answers *)
lower(answer) ==
    CASE answer \in {"yes", "YES", "Yes"} -> "yes"
      [] OTHER                            -> answer

(* Faulty variant: a bare 'y' confirms too. *)
confirmed_accepts_y(answer) == lower(answer) \in {"yes", "y"}

(* the negation of `confirm.lower() != 'yes'` *)
confirmed(answer) == lower(answer) = "yes"

(* the list used when the schema query found no measurement *)
predefined_measurements ==
    <<"weather_data", "temperature", "humidity", "feels_like", "wind",
      "sunrise", "sunset", "alerts", "pressure", "uv_index", "visibility",
      "condition", "precipitation", "cloud_cover", "wind_direction",
      "gust", "last_updated_epoch", "last_updated", "temp_c", "temp_f",
      "is_day", "icon", "code", "wind_mph", "wind_kph", "wind_degree",
      "pressure_mb", "pressure_in", "precip_mm", "precip_in", "vis_km",
      "vis_miles", "gust_mph", "gust_kph", "feelslike_c", "feelslike_f",
      "windchill_c", "windchill_f", "heatindex_c", "heatindex_f",
      "dewpoint_c", "dewpoint_f", "date", "date_epoch", "maxtemp_c",
      "maxtemp_f", "mintemp_c", "mintemp_f", "avgtemp_c", "avgtemp_f",
      "max_wind_mph", "max_wind_kph", "totalprecip_mm", "totalprecip_in",
      "totalsnow_cm", "avgvis_km", "avgvis_miles", "avghumidity",
      "daily_will_it_rain", "daily_will_it_snow", "daily_chance_of_rain",
      "daily_chance_of_snow", "moonrise", "moonset", "moon_phase",
      "moon_illumination", "is_sun_up", "is_moon_up", "time_epoch",
      "time", "will_it_rain", "will_it_snow", "chance_of_rain",
      "chance_of_snow", "snow_cm", "tides", "tide_time", "tide_height_mt",
      "tide_type", "sig_ht_mt", "swell_ht_mt", "swell_ht_ft", "swell_dir",
      "swell_dir_16_point", "swell_period_secs", "water_temp_c",
      "water_temp_f">>
(* the longest list the schema query returns here *)
MaxMeasurements == 2

(* what schema.measurements can return *)
ListedMeasurements ==
    {Front(predefined_measurements, n) : n \in 0..MaxMeasurements}

(* get_all_measurements: the listed names, ["weather_data"] when the *)
(* query raised                                                      *)
get_all_measurements(outcome, listed) ==
    IF outcome = "ok" THEN listed ELSE <<"weather_data">>

(* measurements = get_all_measurements(client); if not measurements: ... *)
measurements_to_delete(outcome, listed) ==
    IF get_all_measurements(outcome, listed) = <<>>
    THEN predefined_measurements
    ELSE get_all_measurements(outcome, listed)

(* the outer except: return False *)
ResetFailed(r) == [r EXCEPT !.pc = "returned", !.ret = "false"]

InitReset ==
    /\ rs = [NoReset EXCEPT !.pc = "start"]
    /\ SearchIdle
    /\ AppIdle
    /\ AccIdle
    /\ EncIdle

(* client = InfluxDBClient(...); delete_api = client.delete_api() *)
ResetConnect ==
    /\ rs.pc = "start"
    /\ \E ok \in BOOLEAN :
          rs' = IF ok THEN [rs EXCEPT !.pc = "confirm"] ELSE ResetFailed(rs)
    /\ UNCHANGED <<app_vars, acc_vars, enc_vars, search_vars>>

(* confirm = input(...); if confirm.lower() != 'yes': return False *)
ResetConfirm ==
    /\ rs.pc = "confirm"
    /\ \E answer \in Answers :
          rs' = IF confirmed(answer)
                THEN [rs EXCEPT !.pc = "bulk", !.confirm = answer]
                ELSE [ResetFailed(rs) EXCEPT !.confirm = answer]
    /\ UNCHANGED <<app_vars, acc_vars, enc_vars, search_vars>>

(* first approach: delete_api.delete(predicate="") *)
ResetDeleteAll ==
    /\ rs.pc = "bulk"
    /\ \E ok \in BOOLEAN :
          rs' = [rs EXCEPT !.deletes = @ + 1,
                           !.bulk = IF ok THEN "ok" ELSE "raised",
                           !.pc = IF ok THEN "verify" ELSE "main"]
    /\ UNCHANGED <<app_vars, acc_vars, enc_vars, search_vars>>

(* second approach: delete the weather_data measurement, then list *)
(* the measurements of the bucket                                  *)
ResetDeleteMain ==
    /\ rs.pc = "main"
    /\ \E ok \in BOOLEAN :
       \E outcome \in {"ok", "raised"} :
       \E listed \in IF outcome = "ok" THEN ListedMeasurements ELSE {<<>>} :
          rs' = [rs EXCEPT !.deletes = @ + 1,
                           !.main = IF ok THEN "ok" ELSE "raised",
                           !.measurements = measurements_to_delete(outcome, listed),
                           !.i = 1,
                           !.pc = "loop"]
    /\ UNCHANGED <<app_vars, acc_vars, enc_vars, search_vars>>

(* one turn of `for measurement in measurements:` *)
ResetDeleteMeasurement ==
    /\ rs.pc = "loop"
    /\ rs.i <= Len(rs.measurements)
    /\ \E ok \in BOOLEAN :
          rs' = [rs EXCEPT !.deletes = @ + 1,
                           !.success_count = IF ok THEN @ + 1 ELSE @,
                           !.error_count = IF ok THEN @ ELSE @ + 1,
                           !.i = @ + 1,
                           !.pc = IF rs.i = Len(rs.measurements)
                                  THEN "verify" ELSE "loop"]
    /\ UNCHANGED <<app_vars, acc_vars, enc_vars, search_vars>>

(* the verification query and the return *)
ResetVerify ==
    /\ rs.pc = "verify"
    /\ \E found \in {"empty", "data_remains", "raised"} :
          rs' = IF found = "raised"
                THEN [ResetFailed(rs) EXCEPT !.verification = found]
                ELSE [rs EXCEPT !.verification = found, !.ret = "true",
                                !.pc = "returned"]
    /\ UNCHANGED <<app_vars, acc_vars, enc_vars, search_vars>>

NextReset ==
    \/ ResetConnect
    \/ ResetConfirm
    \/ ResetDeleteAll
    \/ ResetDeleteMain
    \/ ResetDeleteMeasurement
    \/ ResetVerify

SpecReset == InitReset /\ [][NextReset]_vars

(* ------------------------------------------------------------------ *)
(* What the accessor's contract (spec 4.1) means by a segment that    *)
(* can be applied: a key present in a mapping, an index in range of a *)
(* sequence.  Used by the properties only.                            *)
(* ------------------------------------------------------------------ *)
Applies(v, sg) ==
    \/ IsDict(v) /\ IsKey(sg) /\ sg.k \in DOMAIN v.m
    \/ IsList(v) /\ ~IsKey(sg) /\ sg.i + 1 \in DOMAIN v.l

Child(v, sg) == IF IsDict(v) THEN v.m[sg.k] ELSE v.l[sg.i + 1]

(* The number of leading segments of keys[i..] that can be applied from v. *)
RECURSIVE Reach(_, _, _)
Reach(v, keys, i) ==
    IF i > Len(keys) \/ ~Applies(v, keys[i])
    THEN i - 1
    ELSE Reach(Child(v, keys[i]), keys, i + 1)

RECURSIVE ValueAt(_, _, _)
ValueAt(v, keys, i) ==
    IF i > Len(keys) THEN v ELSE ValueAt(Child(v, keys[i]), keys, i + 1)

PathPresent(v, keys) == Reach(v, keys, 1) = Len(keys)

\* C1: whenever every key segment of the path is present and every index
\* segment is in range, the call returns the value at the end of the path.
C1_ReturnsValueAtPath ==
    (acc_pc = "returned" /\ PathPresent(acc_data, acc_keys))
        => (~acc_ret.raised /\ acc_ret.value = ValueAt(acc_data, acc_keys, 1))

\* C2: the call never raises, and when some segment of a non-empty path
\* cannot be applied it returns exactly the default, having applied no
\* segment at or after the first one that cannot be applied.
C2_DefaultOnMissing ==
    acc_pc = "returned" =>
        /\ ~acc_ret.raised
        /\ (Len(acc_keys) > 0 /\ ~PathPresent(acc_data, acc_keys))
              => /\ acc_ret.value = acc_default
                 /\ acc_ret.applied <= Reach(acc_data, acc_keys, 1)

\* C2 witness: a dict whose first segment is found and whose second is not.
C2_Witness ==
    /\ acc_pc = "returned"
    /\ IsDict(acc_data)
    /\ Len(acc_keys) >= 2
    /\ ~PathPresent(acc_data, acc_keys)
    /\ acc_ret.applied = 1
    /\ acc_ret.value = acc_default
    /\ acc_default = Str("None")

(* ------------------------------------------------------------------ *)
(* Properties of the extractor, read off the request in progress      *)
(* ------------------------------------------------------------------ *)
ExtractRan == data # NoData
Returned == ExtractRan /\ ~data.raised
PointBuilt == point # NoPoint

Has(wd, k) == k \in DOMAIN wd.m
HasDict(wd, k) == Has(wd, k) /\ IsDict(wd.m[k])

(* every branch that is present is a mapping, as in a well-formed response *)
WellFormed(wd) ==
    /\ \A k \in DOMAIN wd.m : IsDict(wd.m[k])
    /\ (Has(wd, "current") /\ Has(wd.m["current"], "air_quality"))
          => IsDict(wd.m["current"].m["air_quality"])

Prefixed(prefix, fields) == {prefix \o f : f \in fields}

ConditionalKeys ==
    Prefixed("hour_", hour_fields) \cup Prefixed("hour_condition_", condition_fields)
        \cup tide_fields

UnconditionalKeys ==
    current_fields \cup Prefixed("condition_", condition_fields)
        \cup {"date", "date_epoch"} \cup day_fields
        \cup Prefixed("day_condition_", condition_fields) \cup astro_fields
        \cup marine_fields
        \cup {"air_quality", "alerts", "location_data", "formatted_location"}

SchemaKeys == UnconditionalKeys \cup ConditionalKeys

C4_StagesIndependent ==
    (ExtractRan /\ ~WellFormed(weather_data))
        => /\ ~data.raised
           /\ {"alerts", "location_data", "formatted_location"} \subseteq DOMAIN data.result

FirstAlertHasHeadline(wd) ==
    /\ HasDict(wd, "alerts")
    /\ Has(wd.m["alerts"], "alert")
    /\ IsList(wd.m["alerts"].m["alert"])
    /\ Len(wd.m["alerts"].m["alert"].l) > 0
    /\ IsDict(wd.m["alerts"].m["alert"].l[1])
    /\ Has(wd.m["alerts"].m["alert"].l[1], "headline")

\* C5: with a non-empty alerts.alert list whose first element has a headline,
\* the record's alerts is that headline.
C5_FirstHeadline ==
    (Returned /\ FirstAlertHasHeadline(weather_data))
        => data.result["alerts"] = weather_data.m["alerts"].m["alert"].l[1].m["headline"]

NoAlerts(wd) ==
    \/ ~Has(wd, "alerts")
    \/ /\ IsDict(wd.m["alerts"])
       /\ \/ ~Has(wd.m["alerts"], "alert")
          \/ wd.m["alerts"].m["alert"] = List(<<>>)

\* C6: when alerts or alerts.alert is missing or alerts.alert is empty, the
\* record's alerts is the string "None", and the point built from the record
\* has the string field alerts = "None".
C6_AlertsSentinel ==
    (Returned /\ NoAlerts(weather_data))
        => /\ data.result["alerts"] = Str("None")
           /\ PointBuilt => /\ "alerts" \in DOMAIN point.fields
                            /\ point.fields["alerts"] = String("None")

\* C6 witness: an empty alerts.alert list, and the point built.
C6_Witness ==
    /\ PointBuilt
    /\ Has(weather_data, "alerts")
    /\ Has(weather_data.m["alerts"], "alert")
    /\ weather_data.m["alerts"].m["alert"] = List(<<>>)
    /\ point.fields["alerts"] = String("None")

ForecastDays0(wd) ==
    /\ HasDict(wd, "forecast")
    /\ Has(wd.m["forecast"], "forecastday")
    /\ IsList(wd.m["forecast"].m["forecastday"])
    /\ Len(wd.m["forecast"].m["forecastday"].l) > 0

Day0(wd) == wd.m["forecast"].m["forecastday"].l[1]

\* C7: with a non-empty forecast.forecastday, date and date_epoch, the day
\* aggregates and the astro fields of the record are those of forecastday[0].
C7_ForecastDayZero ==
    (Returned /\ ForecastDays0(weather_data))
        => /\ \A f \in {"date", "date_epoch"} :
                data.result[f] = Get(Day0(weather_data), f, None)
           /\ \A f \in day_fields :
                data.result[f] = Get(Get(Day0(weather_data), "day", EmptyDict), f, None)
           /\ \A f \in astro_fields :
                data.result[f] = Get(Get(Day0(weather_data), "astro", EmptyDict), f, None)

Hours0(wd) ==
    /\ ForecastDays0(wd)
    /\ Has(Day0(wd), "hour")
    /\ IsList(Day0(wd).m["hour"])
    /\ Len(Day0(wd).m["hour"].l) > 0

Hour0(wd) == Day0(wd).m["hour"].l[1]

(* absent from the record: no key, or the absent value *)
AbsentIn(rec, k) == k \notin DOMAIN rec \/ rec[k] = None

\* C8: with a non-empty hour list the hour_ fields and the marine hour fields
\* of the record are those of hour[0], whatever the marine branch holds; with
\* an empty or missing hour list they are all absent.
C8_HourZero ==
    Returned =>
        IF Hours0(weather_data)
        THEN /\ \A f \in hour_fields :
                  /\ "hour_" \o f \in DOMAIN data.result
                  /\ data.result["hour_" \o f] = Get(Hour0(weather_data), f, None)
             /\ \A f \in marine_fields :
                  data.result[f] = Get(Hour0(weather_data), f, None)
        ELSE \A k \in Prefixed("hour_", hour_fields) \cup marine_fields :
                  AbsentIn(data.result, k)

\* C9: every current-conditions field of the record equals the same-named
\* value of current, whatever the forecast branch holds.
C9_CurrentFieldsKept ==
    Returned =>
        \A f \in current_fields :
            data.result[f] = Get(Get(weather_data, "current", EmptyDict), f, None)

\* C10: with current.air_quality present the record's air_quality has exactly
\* the 8 output keys, us_epa_index and gb_defra_index holding the values of
\* 'us-epa-index' and 'gb-defra-index'; without it, it is the empty mapping.
C10_AirQuality ==
    Returned =>
        LET current == Get(weather_data, "current", EmptyDict)
            out == data.result["air_quality"]
        IN  IF Has(current, "air_quality")
            THEN LET aq == current.m["air_quality"]
                 IN  /\ IsDict(out)
                     /\ DOMAIN out.m = {"co", "o3", "no2", "so2", "pm2_5", "pm10",
                                        "us_epa_index", "gb_defra_index"}
                     /\ \A k \in {"co", "o3", "no2", "so2", "pm2_5", "pm10"} :
                            out.m[k] = Get(aq, k, None)
                     /\ out.m["us_epa_index"] = Get(aq, "us-epa-index", None)
                     /\ out.m["gb_defra_index"] = Get(aq, "gb-defra-index", None)
            ELSE out = EmptyDict

\* C10 witness: the sample air quality, renamed on output.
C10_Witness ==
    /\ Returned
    /\ Has(weather_data, "current")
    /\ Has(weather_data.m["current"], "air_quality")
    /\ data.result["air_quality"].m["us_epa_index"] = Num(2)
    /\ data.result["air_quality"].m["gb_defra_index"] = Num(1)

(* ------------------------------------------------------------------ *)
(* The formatted location and the encoder                             *)
(* ------------------------------------------------------------------ *)
(* one part of the formatted location as the specification words it: *)
(* the empty string for a missing key and for a null value           *)
LocationPart(location, k) ==
    IF k \in DOMAIN location.m /\ location.m[k] # None
    THEN StrOf(location.m[k])
    ELSE ""

\* C11: the record's formatted_location is "<name>, <country>" of the
\* response's location, the empty string standing for a part whose key is
\* missing or whose value is null, and the point's location tag is that string.
C11_FormattedLocation ==
    Returned =>
        LET location == Get(weather_data, "location", EmptyDict)
        IN  /\ data.result["formatted_location"] =
                  Str(LocationPart(location, "name") \o ", "
                        \o LocationPart(location, "country"))
            /\ PointBuilt =>
                  point.tags.location = data.result["formatted_location"]

EncoderBuilt == enc_pc = "built"

(* the entries of a sub-mapping argument, none when it is not a mapping *)
Entries(v) == IF IsDict(v) THEN DOMAIN v.m ELSE {}

\* C12: whatever arguments are None, also inside air_quality and
\* location_data, the built point has no field for a None value and every
\* field it has is a float or a string.
C12_NoNullField ==
    EncoderBuilt =>
        /\ \A x \in DOMAIN enc_point.fields :
              enc_point.fields[x].kind \in {"float", "string"}
        /\ \A param \in scalar_params :
              enc_args[param] = None => param \notin DOMAIN enc_point.fields
        /\ \A k \in Entries(enc_args["air_quality"]) :
              enc_args["air_quality"].m[k] = None
                  => ("air_quality_" \o k) \notin DOMAIN enc_point.fields
        /\ \A k \in Entries(enc_args["location_data"]) :
              enc_args["location_data"].m[k] = None
                  => ("location_" \o k) \notin DOMAIN enc_point.fields

\* C12 witness: None scalars, a None air-quality entry and a None location
\* entry beside values that are written.
C12_Witness ==
    /\ EncoderBuilt
    /\ enc_args["sunrise"] = None
    /\ enc_args["humidity"] = None
    /\ enc_args["temp_c"] = Num(12)
    /\ "temp_c" \in DOMAIN enc_point.fields
    /\ IsDict(enc_args["air_quality"])
    /\ "o3" \in Entries(enc_args["air_quality"])
    /\ enc_args["air_quality"].m["o3"] = None
    /\ "air_quality_co" \in DOMAIN enc_point.fields
    /\ IsDict(enc_args["location_data"])
    /\ "lon" \in Entries(enc_args["location_data"])
    /\ enc_args["location_data"].m["lon"] = None
    /\ "location_lat" \in DOMAIN enc_point.fields

(* a value float() refuses *)
Unconvertible(v) == v # None /\ FloatOf(v).raised

StringAllowlist ==
    {"condition", "icon", "wind_direction", "last_updated", "date", "time",
     "sunrise", "sunset", "moonrise", "moonset", "moon_phase",
     "moon_illumination", "tide_time", "tide_type", "swell_dir_16_point",
     "alerts"}

(* the parameters index fills from the record: all scalars but tides, *)
(* which it passes as None                                            *)
RecordParams == scalar_params \ {"tides"}

\* C14: the name alone decides the kind of a field: a field of the string
\* allowlist is written as a string whatever its value ('12', 12, 'N/A'),
\* every other field with a convertible value is written as a float.
C14_KindByName ==
    EncoderBuilt =>
        \A param \in RecordParams :
            LET v == enc_args[param]
            IN  /\ (param \in StringAllowlist /\ v # None)
                      => /\ param \in DOMAIN enc_point.fields
                         /\ enc_point.fields[param] = String(StrOf(v))
                /\ (param \notin StringAllowlist /\ v # None /\ ~FloatOf(v).raised)
                      => /\ param \in DOMAIN enc_point.fields
                         /\ enc_point.fields[param] = Float(FloatOf(v).f)

\* C14 witness: '12' given to a string field and to a numeric field, and the
\* number 12 given to a string field.
C14_Witness ==
    /\ EncoderBuilt
    /\ enc_args["sunrise"] = Str("12")
    /\ enc_point.fields["sunrise"] = String("12")
    /\ enc_args["temp_c"] = Str("12")
    /\ enc_point.fields["temp_c"] = Float(12)
    /\ enc_args["moon_illumination"] = Num(12)
    /\ enc_point.fields["moon_illumination"] = String("12")

(* the record's scalar fields that hold a value *)
RecordScalars(rec) ==
    {k \in DOMAIN rec \ {"formatted_location", "air_quality", "location_data"} :
        rec[k] # None}

PresentEntries(v) == {k \in Entries(v) : v.m[k] # None}

\* C15: the point written for a record has one field per scalar record field
\* that holds a value, formatted_location aside, plus one per air_quality and
\* location_data entry that holds a value.
C15_OneFieldPerRecordField ==
    PointBuilt =>
        Cardinality(DOMAIN point.fields) =
            Cardinality(RecordScalars(data.result))
              + Cardinality(PresentEntries(data.result["air_quality"]))
              + Cardinality(PresentEntries(data.result["location_data"]))

(* ------------------------------------------------------------------ *)
(* The store write, the fetch and the session                         *)
(* ------------------------------------------------------------------ *)
RequestOver == pc = "done"
WriteFailed == store_result \in store_failures
VerificationFailed == verify_result \in {"not_found", "query_error"}
VerificationFound == verify_result \in {"found", "found_temperature"}

\* C16: write_weather_data never raises to index: when write_api.write fails
\* (no write API, connection error, type conflict, timeout) and when the
\* verification read finds nothing or fails, the call returns False, and
\* index's own exception message appears only when no write was called.
C16_WriteNeverRaises ==
    /\ WriteFailed =>
          (RequestOver /\ write_success = "false" /\ flash = "save_failed")
    /\ VerificationFailed =>
          (RequestOver /\ write_success = "false" /\ flash = "save_failed")
    /\ (RequestOver /\ writes > 0) => write_success \in {"true", "false"}
    /\ flash = "processing_error" => writes = 0

\* C16 witness: the write API does not exist and the call returned False.
C16_Witness ==
    /\ RequestOver
    /\ PointBuilt
    /\ store_result = "no_write_api"
    /\ write_success = "false"
    /\ flash = "save_failed"

\* C17: the returned boolean follows the store write alone: a write that
\* returned without error gives True whatever the verification read did.
C17_WriteAloneDecides ==
    (RequestOver /\ store_result = "ok") => write_success = "true"

\* C17 as the code has it: after a write that returned without error the
\* returned boolean is the verification's result, True when records were
\* found and False when none were found or the read failed; a failed write
\* gives False.
C17_VerificationDecides ==
    /\ (RequestOver /\ store_result = "ok") =>
          /\ VerificationFound \/ VerificationFailed
          /\ write_success = "true" <=> VerificationFound
          /\ write_success = "false" <=> VerificationFailed
    /\ (RequestOver /\ WriteFailed) => write_success = "false"

\* C17 witness: the write returned, the verification found no records, the
\* call returned False.
C17_Witness ==
    /\ RequestOver
    /\ store_result = "ok"
    /\ verify_result = "not_found"
    /\ write_success = "false"
    /\ flash = "save_failed"

\* C18: whatever way the fetch fails, get_weather_data returns None and no
\* exception reaches index; an index POST whose fetch returned None ends
\* with the 'unable to retrieve' message, without extraction, point or write.
C18_FetchNeverRaises ==
    /\ fetch \in fetch_failures => weather_data = None
    /\ flash # "server_error"
    /\ (fetch # "none" /\ weather_data = None) =>
          /\ RequestOver
          /\ flash = "unable"
          /\ ~ExtractRan
          /\ ~PointBuilt
          /\ writes = 0
          /\ verifies = 0
          /\ store_result = "none"

\* C18 witness: collection is on, the fetch timed out, the request ended
\* with the 'unable' message.
C18_Witness ==
    /\ RequestOver
    /\ collect_data = "on"
    /\ fetch = "timeout"
    /\ weather_data = None
    /\ flash = "unable"

\* C19: the session flag is the parity of the toggle requests, and an index
\* POST whose fetch succeeded calls the store write exactly when that number
\* is odd, and otherwise ends with the 'not saved' notice.
C19_ToggleGatesWrite ==
    /\ SessionCollect = "on" <=> toggles_odd
    /\ (RequestOver /\ fetch = "ok" /\ Truthy(weather_data)) =>
          IF toggles_odd
          THEN writes = 1
          ELSE writes = 0 /\ flash = "not_saved"

\* C20: in one request the point is built before the store write, the write
\* is called at most once and not again after it failed, the verification is
\* read at most once and only after a write that returned without error.
C20_StepsOrdered ==
    /\ writes <= 1
    /\ verifies <= 1
    /\ writes > 0 => (PointBuilt /\ fetch = "ok")
    /\ verifies > 0 => (writes = 1 /\ store_result = "ok")
    /\ WriteFailed => (RequestOver /\ verifies = 0)
    /\ pc \in {"store", "build", "extract", "idle"} => writes = 0

\* C20 witness: a request over after one write and one verification.
C20_Witness ==
    /\ RequestOver
    /\ PointBuilt
    /\ writes = 1
    /\ store_result = "ok"
    /\ verifies = 1

(* ------------------------------------------------------------------ *)
(* The location search cache                                          *)
(* ------------------------------------------------------------------ *)
Called == sl_call # NoCall

(* the argument pairs of the MaxCache most recent distinct calls *)
MostRecent == {sl_recent[i] : i \in DOMAIN Front(sl_recent, MaxCache)}

\* C21: the cache holds the results, None included, of the MaxCache most
\* recently used argument pairs (api_key, query); a call whose pair is among
\* them issues no request and returns the stored result, so a failure stays
\* None; only a call whose pair is not among them issues a request.
C21_CacheKeepsFailures ==
    /\ CacheKeys(sl_cache) = MostRecent
    /\ Len(sl_cache) = Cardinality(MostRecent)
    /\ Called =>
          /\ sl_cache[1] = [key |-> sl_call.key, value |-> sl_call.ret]
          /\ sl_call.hit <=> ~sl_call.requested
          /\ sl_call.hit => sl_call.ret = sl_call.cached

\* C21 witness: after more distinct calls than the cache holds, a repeated
\* call returned the None of an earlier failed request without a request.
C21_Witness ==
    /\ Called
    /\ Len(sl_recent) > MaxCache
    /\ sl_call.hit
    /\ ~sl_call.requested
    /\ sl_call.ret = None

(* ------------------------------------------------------------------ *)
(* The database reset                                                 *)
(* ------------------------------------------------------------------ *)
(* the answers that are 'yes' up to the case of their letters *)
IsYes(answer) == answer \in {"yes", "YES", "Yes"}

ResetReturned == rs.pc = "returned"

\* C22: no delete call is issued before an answer that is 'yes' up to case,
\* and any other answer returns False without one; the per-measurement
\* deletions happen only after the delete of the whole bucket raised, every
\* listed measurement is then attempted whatever failed before it, and the
\* function returns True whenever the verification query did not raise.
C22_ResetBehaviour ==
    /\ ~IsYes(rs.confirm) => rs.deletes = 0
    /\ (ResetReturned /\ ~IsYes(rs.confirm)) => rs.ret = "false"
    /\ (rs.main # "none" \/ rs.success_count + rs.error_count > 0)
          => rs.bulk = "raised"
    /\ rs.bulk = "ok" => rs.deletes = 1
    /\ (rs.bulk = "raised" /\ rs.pc \in {"verify", "returned"}) =>
          /\ rs.measurements # <<>>
          /\ rs.success_count + rs.error_count = Len(rs.measurements)
          /\ rs.deletes = 2 + Len(rs.measurements)
    /\ ResetReturned =>
          (rs.ret = "true" <=> rs.verification \in {"empty", "data_remains"})

\* C22 witness: the answer was 'YES', the delete of the bucket and every
\* later deletion failed, the verification query returned, the result is True.
C22_Witness ==
    /\ ResetReturned
    /\ rs.confirm = "YES"
    /\ rs.bulk = "raised"
    /\ rs.main = "raised"
    /\ Len(rs.measurements) > 1
    /\ rs.success_count = 0
    /\ rs.error_count = Len(rs.measurements)
    /\ rs.verification = "data_remains"
    /\ rs.ret = "true"

====
